---- MODULE Spec2Model ----
(***************************************************************************)
(* Link-quality decision engine of bgp_failover_telemetry_c.py             *)
(* (class BGPFailoverEngine): per-provider rolling history of MTR          *)
(* snapshots, smoothed quality scores, the sustained-degradation /         *)
(* immediate-failover switching policy and the application of a switch to  *)
(* the NetBox policy store.                                                *)
(*                                                                         *)
(* Arithmetic.  quality_score is a float in the source.  Here every score  *)
(* is kept exactly, in tenths of a score point (0.7, 0.3 and 0.5 become    *)
(* 7, 3 and 5; the loss factor 100 becomes 1000).  A smoothed score is the *)
(* exact fraction sum/len, kept as the pair (sum, n) and compared by       *)
(* cross-multiplication.  For the snapshots used below no comparison falls *)
(* within rounding distance of a threshold, so the exact comparison agrees *)
(* with the float comparison of the source.  The one non-finite float the  *)
(* source produces, float('inf') for a hop record without 'Avg', is the    *)
(* value Inf, with the IEEE rules the source relies on: Inf times a        *)
(* positive weight and Inf plus a finite number are Inf, Inf < Inf is      *)
(* false, and Inf - Inf is NaN, which compares false with everything.      *)
(***************************************************************************)
EXTENDS Integers, Sequences, FiniteSets, TLC

VARIABLES
    PROVIDERS,                  \* the configured catalog, in order (line 54)
    current_primary_provider,   \* module global, line 95
    metrics_history,            \* self.metrics_history, line 272
    degradation_counter,        \* self.degradation_counter, line 282
    better_provider_candidate,  \* self.better_provider_candidate, line 283
    cycle_count,                \* self.cycle_count, line 278
    last_provider,              \* self.last_provider, line 279
    DRY_RUN,                    \* configuration flag, line 76
    netbox_rules,               \* the policy store: rule id -> custom fields
    es_enabled,                 \* self.es_client.enabled, lines 157-181
    running,                    \* the loop of main is alive, lines 619-622
    recorded,                   \* every snapshot appended so far, per provider
    probe,                      \* the last report extract_metrics was given
    ping_engine,                \* the engine of bgp_failover_engine.py
    last_cycle                  \* what the last run_cycle observed and returned

vars == <<PROVIDERS, current_primary_provider, metrics_history, degradation_counter,
          better_provider_candidate, cycle_count, last_provider, DRY_RUN,
          netbox_rules, es_enabled, running, recorded, probe, ping_engine,
          last_cycle>>

-----------------------------------------------------------------------------
(* Bounds of the model *)

MaxCycles == 4

\* The longest MTR report, in hops.
MaxHops == 2

-----------------------------------------------------------------------------
(* Configuration *)

\* The provider catalog is configuration, loaded once at startup (lines
\* 17-54) and never written.  The fallback configuration of the source lists
\* IXA and UFINET; a calibrated configuration may list more, and a candidate
\* can only change with at least three providers.
FallbackCatalog == <<"IXA", "UFINET">>
ThreeProviderCatalog == <<"IXA", "UFINET", "ALT">>

Providers == {PROVIDERS[i] : i \in 1..Len(PROVIDERS)}

None == "None"

LATENCY_THRESHOLDS ==
    [peer_warning |-> 12, peer_critical |-> 25,
     dns_warning |-> 10, dns_critical |-> 30,
     switch_margin |-> 3]

SUSTAINED_DEGRADATION_CYCLES == 3

IMMEDIATE_FAILOVER_PACKET_LOSS == 20

HistoryWindow == 3

POLICY_RULE_IDS ==
    [p \in {"IXA", "UFINET", "ALT"} |->
        CASE p = "IXA"    -> [export |-> 1, pref |-> 3]
          [] p = "UFINET" -> [export |-> 2, pref |-> 4]
          [] OTHER        -> [export |-> 5, pref |-> 6]]

-----------------------------------------------------------------------------
(* LatencyMetrics *)

\* float('inf') (lines 335 and 337); kept out of the integer arithmetic.
Inf == 999999999

LatencyMetrics(pa, pl, da, dl, ps, ds) ==
    [peer_avg |-> pa, peer_loss |-> pl, dns_avg |-> da, dns_loss |-> dl,
     peer_stddev |-> ps, dns_stddev |-> ds]

\* The snapshot recorded when a measurement failed (lines 382-385).
PenaltyMetrics == LatencyMetrics(999, 100, 999, 100, 0, 0)

\* What measure_provider_latency can return in a cycle, by name: "None" (the
\* probe or the extraction failed) or a measured snapshot.  One Mid sample
\* against Good samples is above the margin alone (4.0) and within it once
\* averaged over a window of two or three (2.0, 1.33, 2.67).
GoodMetrics == LatencyMetrics(5, 0, 5, 0, 0, 0)
MidMetrics == LatencyMetrics(9, 0, 9, 0, 0, 0)

MeasureOutcomes == {None, "Good", "Mid"}

\* Two snapshots at the edges of the data model: a peer hop that answered
\* every probe but whose record carries no 'Avg' (latency inf, line 335), and
\* a peer hop that lost exactly 20% of the probes.
NoAvgMetrics == LatencyMetrics(Inf, 0, 5, 0, 0, 0)
Loss20Metrics == LatencyMetrics(5, 20, 5, 0, 0, 0)

EdgeOutcomes == {None, "NoAvg", "Loss20"}

Measured(outcome) ==
    CASE outcome = "Good"   -> GoodMetrics
      [] outcome = "Mid"    -> MidMetrics
      [] outcome = "NoAvg"  -> NoAvgMetrics
      [] outcome = "Loss20" -> Loss20Metrics

\* (variant: health judged on the critical latency thresholds)
is_healthy_latency_only(m) ==
    /\ m.peer_avg < LATENCY_THRESHOLDS.peer_critical
    /\ m.dns_avg < LATENCY_THRESHOLDS.dns_critical

\* LatencyMetrics.is_healthy
is_healthy(m) ==
    /\ m.peer_loss < IMMEDIATE_FAILOVER_PACKET_LOSS
    /\ m.dns_loss < IMMEDIATE_FAILOVER_PACKET_LOSS

\* Float addition and multiplication by a positive weight.
FloatAdd(a, b) == IF a = Inf \/ b = Inf THEN Inf ELSE a + b

FloatMul(a, k) == IF a = Inf THEN Inf ELSE a * k

\* LatencyMetrics.quality_score, in tenths of a point.
quality_score(m) ==
    LET loss_penalty     == (m.peer_loss + m.dns_loss) * 1000
        weighted_latency == FloatAdd(FloatMul(m.peer_avg, 7), FloatMul(m.dns_avg, 3))
        jitter_penalty   == (m.peer_stddev + m.dns_stddev) * 5
    IN  FloatAdd(FloatAdd(weighted_latency, loss_penalty), jitter_penalty)

-----------------------------------------------------------------------------
(* MTR reports and extract_metrics (lines 315-354) *)

PEER_IPS == [IXA |-> "2001:db8:ffaa::255", UFINET |-> "2001:db8:ffac::255"]

\* The hosts a hop of a report can show: the two peers and the destination.
HubHosts == {PEER_IPS["IXA"], PEER_IPS["UFINET"], "2001:db8:8888::100"}

\* One hop of a report.  fields: the numeric members of the hop's record
\* (any of 'Avg', 'Loss%' and 'StDev' may be missing); bad: the members whose
\* value float() rejects.  The values follow the hop's place so that two
\* hops of a report can be told apart.
Hub(count, host, shape) ==
    [count |-> count, host |-> host,
     fields |-> CASE shape = "bare"   -> [Snt |-> 5]
                  [] shape = "no_avg" -> [Snt |-> 5, Loss |-> 0, StDev |-> count]
                  [] OTHER -> [Snt |-> 5, Avg |-> 5 * count, Loss |-> 0,
                               StDev |-> count],
     bad |-> IF shape = "text" THEN {"Avg"} ELSE {}]

HubShapes == {"full", "no_avg", "bare", "text"}

Hubs == {Hub(c, h, sh) : c \in 1..MaxHops, h \in HubHosts, sh \in HubShapes}

\* The reports: a record without 'report'/'hubs', or a list of up to MaxHops
\* hops.
MtrReports ==
    {[error |-> "no report"]}
    \cup {[hubs |-> hs] : hs \in UNION {[1..n -> Hubs] : n \in 0..MaxHops}}

\* float(hop.get(name, default)) raises
FloatRaises(hub, name) == name \in hub.bad

\* float(hop.get(name, default))
FloatOf(hub, name, default) ==
    IF name \in DOMAIN hub.fields THEN hub.fields[name] ELSE default

\* The loop of lines 324-328 keeps the last hop that matches.
LastMatch(S) == CHOOSE i \in S : \A j \in S : j <= i

\* extract_metrics(mtr_report, provider).  ok: a snapshot is returned (else
\* None); raised: an exception left the method.
\* (variant: the destination is the last hop of the list, whatever its count)
extract_metrics_LastHubIsDestination(mtr_report, provider) ==
    IF "hubs" \notin DOMAIN mtr_report
    THEN [ok |-> FALSE, raised |-> FALSE]
    ELSE LET hubs  == mtr_report.hubs
             peers == {i \in 1..Len(hubs) : hubs[i].host = PEER_IPS[provider]}
             dests == {i \in 1..Len(hubs) : i = Len(hubs)}
         IN  IF peers = {} \/ dests = {}
             THEN [ok |-> FALSE, raised |-> FALSE]
             ELSE LET peer_hop == hubs[LastMatch(peers)]
                      dns_hop  == hubs[LastMatch(dests)]
                  IN  IF \/ \E f \in {"Avg", "Loss", "StDev"} : FloatRaises(peer_hop, f)
                         \/ \E f \in {"Avg", "Loss", "StDev"} : FloatRaises(dns_hop, f)
                      THEN [ok |-> FALSE, raised |-> FALSE]
                      ELSE [ok |-> TRUE, raised |-> FALSE,
                            metrics |->
                              LatencyMetrics(FloatOf(peer_hop, "Avg", Inf),
                                             FloatOf(peer_hop, "Loss", 100),
                                             FloatOf(dns_hop, "Avg", Inf),
                                             FloatOf(dns_hop, "Loss", 100),
                                             FloatOf(peer_hop, "StDev", 0),
                                             FloatOf(dns_hop, "StDev", 0))]

extract_metrics(mtr_report, provider) ==
    IF "hubs" \notin DOMAIN mtr_report
    THEN [ok |-> FALSE, raised |-> FALSE]
    ELSE LET hubs  == mtr_report.hubs
             peers == {i \in 1..Len(hubs) : hubs[i].host = PEER_IPS[provider]}
             dests == {i \in 1..Len(hubs) : hubs[i].count = Len(hubs)}
         IN  IF peers = {} \/ dests = {}
             THEN [ok |-> FALSE, raised |-> FALSE]
             ELSE LET peer_hop == hubs[LastMatch(peers)]
                      dns_hop  == hubs[LastMatch(dests)]
                  IN  IF \/ \E f \in {"Avg", "Loss", "StDev"} : FloatRaises(peer_hop, f)
                         \/ \E f \in {"Avg", "Loss", "StDev"} : FloatRaises(dns_hop, f)
                      THEN [ok |-> FALSE, raised |-> FALSE]
                      ELSE [ok |-> TRUE, raised |-> FALSE,
                            metrics |->
                              LatencyMetrics(FloatOf(peer_hop, "Avg", Inf),
                                             FloatOf(peer_hop, "Loss", 100),
                                             FloatOf(dns_hop, "Avg", Inf),
                                             FloatOf(dns_hop, "Loss", 100),
                                             FloatOf(peer_hop, "StDev", 0),
                                             FloatOf(dns_hop, "StDev", 0))]

\* Lines 378-387: what the caller appends for the provider.
AppendedFor(returned) ==
    IF returned.ok THEN returned.metrics ELSE PenaltyMetrics

-----------------------------------------------------------------------------
(* History and smoothed scores (should_switch_provider, lines 375-396) *)

\* The snapshot recorded for a provider: the measurement, or the penalty.
\* (variant: a failed measurement recorded as slow but loss-free)
RecordedMetrics_LossFreePenalty(outcome) ==
    IF outcome = None THEN LatencyMetrics(999, 0, 999, 0, 0, 0)
    ELSE Measured(outcome)

RecordedMetrics(outcome) ==
    IF outcome = None THEN PenaltyMetrics ELSE Measured(outcome)

\* append, then pop(0) past three entries
\* (variant: the oldest entry leaves one cycle late)
AppendHistory_PopPastFour(h, m) ==
    LET a == Append(h, m)
    IN  IF Len(a) > HistoryWindow + 1 THEN Tail(a) ELSE a

AppendHistory(h, m) ==
    LET a == Append(h, m)
    IN  IF Len(a) > HistoryWindow THEN Tail(a) ELSE a

RECURSIVE SumScores(_)
SumScores(h) ==
    IF h = <<>> THEN 0 ELSE FloatAdd(quality_score(Head(h)), SumScores(Tail(h)))

\* provider_scores[provider]: score is the fraction sum / n.
\* (variant: no smoothing, the newest snapshot alone)
ProviderScore_NewestOnly(h) ==
    [sum |-> quality_score(h[Len(h)]), n |-> 1,
     metrics |-> h[Len(h)],
     is_healthy |-> is_healthy(h[Len(h)])]

ProviderScore(h) ==
    [sum |-> SumScores(h), n |-> Len(h),
     metrics |-> h[Len(h)],
     is_healthy |-> is_healthy(h[Len(h)])]

\* a.sum/a.n < b.sum/b.n
ScoreLess(a, b) ==
    IF a.sum = Inf THEN FALSE
    ELSE IF b.sum = Inf THEN TRUE
    ELSE a.sum * b.n < b.sum * a.n

\* score_diff = a.sum/a.n - b.sum/b.n is NaN (line 411)
DiffIsNaN(a, b) == a.sum = Inf /\ b.sum = Inf

\* a.sum/a.n - b.sum/b.n > switch_margin  (tenths: margin * 10)
DiffAboveMargin(a, b) ==
    IF DiffIsNaN(a, b) THEN FALSE
    ELSE IF a.sum = Inf THEN TRUE
    ELSE IF b.sum = Inf THEN FALSE
    ELSE a.sum * b.n - b.sum * a.n
            > LATENCY_THRESHOLDS.switch_margin * 10 * a.n * b.n

\* min(provider_scores.keys(), key=score): the first provider, in catalog
\* order, that no provider beats strictly.
\* (variant: the last of the providers that share the minimum)
best_provider_of_LastOfTies(scores) ==
    LET i == CHOOSE i \in 1..Len(PROVIDERS) :
                /\ \A j \in 1..Len(PROVIDERS) :
                       ~ScoreLess(scores[PROVIDERS[j]], scores[PROVIDERS[i]])
                /\ \A j \in (i + 1)..Len(PROVIDERS) :
                       ScoreLess(scores[PROVIDERS[i]], scores[PROVIDERS[j]])
    IN  PROVIDERS[i]

best_provider_of(scores) ==
    LET i == CHOOSE i \in 1..Len(PROVIDERS) :
                /\ \A j \in 1..Len(PROVIDERS) :
                       ~ScoreLess(scores[PROVIDERS[j]], scores[PROVIDERS[i]])
                /\ \A j \in 1..(i - 1) :
                       ScoreLess(scores[PROVIDERS[i]], scores[PROVIDERS[j]])
    IN  PROVIDERS[i]

-----------------------------------------------------------------------------
(* should_switch_provider: the decision (lines 406-460) *)

\* Lines 418-430: the same candidate again counts one more cycle, a new
\* candidate restarts the count at 1.
\* (variant: any better provider counts, whether or not it is the candidate)
TrackDegradation_AnyCandidate(best_provider, counter, candidate) ==
    [counter |-> counter + 1, candidate |-> best_provider]

TrackDegradation(best_provider, counter, candidate) ==
    IF candidate = best_provider
    THEN [counter |-> counter + 1, candidate |-> candidate]
    ELSE [counter |-> 1, candidate |-> best_provider]

\* What the call returns and leaves in self: new_provider and reason are
\* the returned pair; degradation_counter and better_provider_candidate are
\* the fields after the call.  The other fields are the locals of the call
\* (best_provider, score_diff > switch_margin, the primary's is_healthy, and
\* the tracking fields as they stood after lines 418-430).
Outcome(new_provider, reason, counter, candidate, best, above, healthy, t) ==
    [new_provider              |-> new_provider,
     reason                    |-> reason,
     degradation_counter       |-> counter,
     better_provider_candidate |-> candidate,
     best_provider             |-> best,
     diff_above_margin         |-> above,
     primary_healthy           |-> healthy,
     tracked_counter           |-> t.counter,
     tracked_candidate         |-> t.candidate]

\* Variants of the decision with one rule changed, against which the
\* properties below are tried.
\* ... the packet-loss rule tried before the margin:
SwitchDecision_LossBeforeMargin(scores, primary, counter, candidate) ==
    LET best    == best_provider_of(scores)
        above   == DiffAboveMargin(scores[primary], scores[best])
        healthy == scores[primary].is_healthy
        t       == TrackDegradation(best, counter, candidate)
        same    == [counter |-> counter, candidate |-> candidate]
    IN  IF best # primary
        THEN IF ~healthy
             THEN Outcome(best, "critical_loss", 0, None, best, above, healthy, t)
             ELSE IF above
             THEN IF t.counter >= SUSTAINED_DEGRADATION_CYCLES
                  THEN Outcome(best, "sustained", 0, None, best, above, healthy, t)
                  ELSE Outcome(primary, "evaluating", t.counter, t.candidate,
                               best, above, healthy, t)
             ELSE Outcome(primary, "insufficient", t.counter, t.candidate,
                          best, above, healthy, t)
        ELSE Outcome(primary, "stable", 0, None, best, above, healthy, same)

\* ... no packet-loss rule, every switch waits for the counter:
SwitchDecision_NoImmediate(scores, primary, counter, candidate) ==
    LET best    == best_provider_of(scores)
        above   == DiffAboveMargin(scores[primary], scores[best])
        healthy == scores[primary].is_healthy
        t       == TrackDegradation(best, counter, candidate)
        same    == [counter |-> counter, candidate |-> candidate]
    IN  IF best # primary
        THEN IF above
             THEN IF t.counter >= SUSTAINED_DEGRADATION_CYCLES
                  THEN Outcome(best, "sustained", 0, None, best, above, healthy, t)
                  ELSE Outcome(primary, "evaluating", t.counter, t.candidate,
                               best, above, healthy, t)
             ELSE Outcome(primary, "insufficient", t.counter, t.candidate,
                          best, above, healthy, t)
        ELSE Outcome(primary, "stable", 0, None, best, above, healthy, same)

\* ... the counter has to exceed the threshold:
SwitchDecision_StrictThreshold(scores, primary, counter, candidate) ==
    LET best    == best_provider_of(scores)
        above   == DiffAboveMargin(scores[primary], scores[best])
        healthy == scores[primary].is_healthy
        t       == TrackDegradation(best, counter, candidate)
        same    == [counter |-> counter, candidate |-> candidate]
    IN  IF best # primary
        THEN IF above
             THEN IF ~healthy
                  THEN Outcome(best, "critical_loss", 0, None, best, above, healthy, t)
                  ELSE IF t.counter > SUSTAINED_DEGRADATION_CYCLES
                  THEN Outcome(best, "sustained", 0, None, best, above, healthy, t)
                  ELSE Outcome(primary, "evaluating", t.counter, t.candidate,
                               best, above, healthy, t)
             ELSE Outcome(primary, "insufficient", t.counter, t.candidate,
                          best, above, healthy, t)
        ELSE Outcome(primary, "stable", 0, None, best, above, healthy, same)

\* ... the tracking fields kept when the primary is the best again:
SwitchDecision_NoResetWhenStable(scores, primary, counter, candidate) ==
    LET best    == best_provider_of(scores)
        above   == DiffAboveMargin(scores[primary], scores[best])
        healthy == scores[primary].is_healthy
        t       == TrackDegradation(best, counter, candidate)
        same    == [counter |-> counter, candidate |-> candidate]
    IN  IF best # primary
        THEN IF above
             THEN IF ~healthy
                  THEN Outcome(best, "critical_loss", 0, None, best, above, healthy, t)
                  ELSE IF t.counter >= SUSTAINED_DEGRADATION_CYCLES
                  THEN Outcome(best, "sustained", 0, None, best, above, healthy, t)
                  ELSE Outcome(primary, "evaluating", t.counter, t.candidate,
                               best, above, healthy, t)
             ELSE Outcome(primary, "insufficient", t.counter, t.candidate,
                          best, above, healthy, t)
        ELSE Outcome(primary, "stable", counter, candidate, best, above, healthy, same)

\* ... a switch resets the counter and keeps the candidate:
SwitchDecision_CounterResetOnly(scores, primary, counter, candidate) ==
    LET best    == best_provider_of(scores)
        above   == DiffAboveMargin(scores[primary], scores[best])
        healthy == scores[primary].is_healthy
        t       == TrackDegradation(best, counter, candidate)
        same    == [counter |-> counter, candidate |-> candidate]
    IN  IF best # primary
        THEN IF above
             THEN IF ~healthy
                  THEN Outcome(best, "critical_loss", 0, t.candidate, best, above, healthy, t)
                  ELSE IF t.counter >= SUSTAINED_DEGRADATION_CYCLES
                  THEN Outcome(best, "sustained", 0, t.candidate, best, above, healthy, t)
                  ELSE Outcome(primary, "evaluating", t.counter, t.candidate,
                               best, above, healthy, t)
             ELSE Outcome(primary, "insufficient", t.counter, t.candidate,
                          best, above, healthy, t)
        ELSE Outcome(primary, "stable", 0, None, best, above, healthy, same)

SwitchDecision(scores, primary, counter, candidate) ==
    LET best    == best_provider_of(scores)
        above   == DiffAboveMargin(scores[primary], scores[best])
        healthy == scores[primary].is_healthy
        t       == TrackDegradation(best, counter, candidate)
        same    == [counter |-> counter, candidate |-> candidate]
    IN  IF best # primary
        THEN IF above
             THEN IF ~healthy
                  THEN Outcome(best, "critical_loss", 0, None, best, above, healthy, t)
                  ELSE IF t.counter >= SUSTAINED_DEGRADATION_CYCLES
                  THEN Outcome(best, "sustained", 0, None, best, above, healthy, t)
                  ELSE Outcome(primary, "evaluating", t.counter, t.candidate,
                               best, above, healthy, t)
             ELSE Outcome(primary, "insufficient", t.counter, t.candidate,
                          best, above, healthy, t)
        ELSE Outcome(primary, "stable", 0, None, best, above, healthy, same)

\* Lines 377-396: one snapshot per provider is recorded, then scored.
RecordAll(history, outcomes) ==
    [p \in Providers |-> AppendHistory(history[p], RecordedMetrics(outcomes[p]))]

ProviderScores(history) ==
    [p \in Providers |-> ProviderScore(history[p])]

-----------------------------------------------------------------------------
(* The policy store and switch_to_provider (lines 462-526) *)

Rule(prepend, pref) ==
    [routing_policy |-> 1, index |-> 10, action |-> "permit",
     custom_fields |-> [as_path_prepend_count |-> prepend,
                        local_preference |-> pref]]

\* A successful update_netbox_policy outside dry run: the rule is read, its
\* custom fields are copied, the named one is overwritten, the rule is
\* written back.
\* (variant: the custom fields read are not copied into the write)
PatchRule_WithoutCopy(rules, rule_id, key, value) ==
    LET current_data == rules[rule_id]
        update_data  ==
            [routing_policy |-> current_data.routing_policy,
             index          |-> current_data.index,
             action         |-> current_data.action,
             custom_fields  |-> [f \in DOMAIN current_data.custom_fields |->
                                    IF f = key THEN value ELSE 0]]
    IN  [rules EXCEPT ![rule_id] = update_data]

PatchRule(rules, rule_id, key, value) ==
    LET current_data == rules[rule_id]
        update_data  ==
            [routing_policy |-> current_data.routing_policy,
             index          |-> current_data.index,
             action         |-> current_data.action,
             custom_fields  |-> [current_data.custom_fields EXCEPT ![key] = value]]
    IN  [rules EXCEPT ![rule_id] = update_data]

\* The update calls of one switch, in the order of lines 509-523.
RECURSIVE UpdateCalls(_, _)
UpdateCalls(i, new_provider) ==
    IF i > Len(PROVIDERS) THEN <<>>
    ELSE LET p == PROVIDERS[i]
             on == (p = new_provider)
         IN  << [rule_id |-> POLICY_RULE_IDS[p].export,
                 key |-> "as_path_prepend_count",
                 value |-> IF on THEN 0 ELSE 3],
                [rule_id |-> POLICY_RULE_IDS[p].pref,
                 key |-> "local_preference",
                 value |-> IF on THEN 200 ELSE 100] >>
             \o UpdateCalls(i + 1, new_provider)

\* The store after the first k calls succeeded.
RECURSIVE ApplyCalls(_, _, _)
ApplyCalls(rules, calls, k) ==
    IF k = 0 \/ calls = <<>> THEN rules
    ELSE ApplyCalls(PatchRule(rules, Head(calls).rule_id, Head(calls).key,
                              Head(calls).value),
                    Tail(calls), k - 1)

\* switch_to_provider(new_provider, reason).  fail_at = 0: no policy-store
\* call fails; fail_at = k: the k-th call raises (its read or its write
\* failed, nothing was written by it), which leaves the function before
\* line 525.  In dry run no call reaches the store and none fails.  calls:
\* the number of update_netbox_policy calls made; reads: the GET requests
\* they sent (line 471); writes: the PATCH requests the store accepted.
\* (variant: the dry-run flag is not looked at)
switch_to_provider_IgnoresDryRun(primary, last, rules, dry, new_provider, fail_at) ==
    LET calls  == UpdateCalls(1, new_provider)
        raised == fail_at # 0
        done   == IF fail_at = 0 THEN Len(calls) ELSE fail_at - 1
    IN  IF new_provider = primary
        THEN [primary |-> primary, last_provider |-> last, rules |-> rules,
              raised |-> FALSE, calls |-> 0, reads |-> 0, writes |-> 0]
        ELSE [primary       |-> IF raised THEN primary ELSE new_provider,
              last_provider |-> primary,
              rules         |-> ApplyCalls(rules, calls, done),
              raised        |-> raised,
              calls         |-> IF raised THEN fail_at ELSE Len(calls),
              reads         |-> IF raised THEN fail_at ELSE Len(calls),
              writes        |-> done]

\* (variant: the primary is taken over before the store is updated)
switch_to_provider_PrimaryFirst(primary, last, rules, dry, new_provider, fail_at) ==
    LET calls  == UpdateCalls(1, new_provider)
        raised == ~dry /\ fail_at # 0
        done   == IF dry THEN 0
                  ELSE IF fail_at = 0 THEN Len(calls) ELSE fail_at - 1
    IN  IF new_provider = primary
        THEN [primary |-> primary, last_provider |-> last, rules |-> rules,
              raised |-> FALSE, calls |-> 0, reads |-> 0, writes |-> 0]
        ELSE [primary       |-> new_provider,
              last_provider |-> primary,
              rules         |-> ApplyCalls(rules, calls, done),
              raised        |-> raised,
              calls         |-> IF raised THEN fail_at ELSE Len(calls),
              reads         |-> IF dry THEN 0
                                ELSE IF raised THEN fail_at ELSE Len(calls),
              writes        |-> done]

switch_to_provider(primary, last, rules, dry, new_provider, fail_at) ==
    LET calls  == UpdateCalls(1, new_provider)
        raised == ~dry /\ fail_at # 0
        done   == IF dry THEN 0
                  ELSE IF fail_at = 0 THEN Len(calls) ELSE fail_at - 1
    IN  IF new_provider = primary
        THEN [primary |-> primary, last_provider |-> last, rules |-> rules,
              raised |-> FALSE, calls |-> 0, reads |-> 0, writes |-> 0]
        ELSE [primary       |-> IF raised THEN primary ELSE new_provider,
              last_provider |-> primary,
              rules         |-> ApplyCalls(rules, calls, done),
              raised        |-> raised,
              calls         |-> IF raised THEN fail_at ELSE Len(calls),
              reads         |-> IF dry THEN 0
                                ELSE IF raised THEN fail_at ELSE Len(calls),
              writes        |-> done]

-----------------------------------------------------------------------------
(* Telemetry: ElasticsearchClient (lines 151-258) *)

ELASTICSEARCH_ENABLED == TRUE

\* What the sink answers to a request: 200/201, another status, or no
\* answer at all (the request raises).
SinkAnswers == {"ok", "error_status", "unreachable"}

\* ElasticsearchClient.__init__ with _verify_connection: the client stays
\* enabled only when the health request answers 200.
ElasticsearchClient_init(configured, health) == configured /\ health = "ok"

NoDoc == [cycle |-> 0]

\* cycle_data and the is_primary / is_healthy columns of all_metrics, as
\* run_cycle builds them (lines 542-571) from the primary and last_provider
\* it sees at that point.
cycle_data(cycle, primary, last, d, scores) ==
    LET provider_will_change == d.new_provider # primary
    IN  [cycle             |-> cycle,
         current_provider  |-> primary,
         provider_changed  |-> provider_will_change,
         previous_provider |-> IF provider_will_change THEN last ELSE None,
         new_provider      |-> IF provider_will_change THEN d.new_provider
                               ELSE None,
         change_reason     |-> d.reason,
         is_primary        |-> [p \in Providers |-> p = primary],
         is_healthy        |-> [p \in Providers |-> scores[p].is_healthy]]

\* send_unified_metrics: nothing when the client is disabled; otherwise one
\* POST of the document, whose failure (status or exception) is logged and
\* goes no further.  posted: a POST was issued; delivered: it was accepted;
\* raised: an exception left the method.
\* (variant: an exception while sending leaves the method)
send_unified_metrics_Propagates(enabled, answer, doc) ==
    [posted    |-> enabled,
     delivered |-> enabled /\ answer = "ok",
     doc       |-> IF enabled THEN doc ELSE NoDoc,
     raised    |-> enabled /\ answer = "unreachable"]

send_unified_metrics(enabled, answer, doc) ==
    [posted    |-> enabled,
     delivered |-> enabled /\ answer = "ok",
     doc       |-> IF enabled THEN doc ELSE NoDoc,
     raised    |-> FALSE]

-----------------------------------------------------------------------------
(* run_cycle (lines 528-583) and the control loop (lines 619-622) *)

\* Lines 539-580, what run_cycle does with the decision: it builds the
\* record from the primary and last_provider as they stand, hands it to the
\* telemetry client, and then applies the switch.  An exception out of the
\* client would skip the rest of the body.  events: the calls made, in order.
\* (variant: the switch applied first, the record built and sent after it)
AfterDecision_SwitchFirst(cycle, primary, last, rules, dry, enabled, answer, d, scores, fail_at) ==
    LET s   == switch_to_provider(primary, last, rules, dry, d.new_provider,
                                  fail_at)
        doc == cycle_data(cycle, s.primary, s.last_provider, d, scores)
        t   == IF s.raised
               THEN [posted |-> FALSE, delivered |-> FALSE, doc |-> NoDoc,
                     raised |-> FALSE]
               ELSE send_unified_metrics(enabled, answer, doc)
    IN  [telemetry |-> t,
         record    |-> doc,
         switch    |-> s,
         events    |-> [i \in 1..s.calls |-> "update_netbox_policy"]
                       \o (IF s.raised THEN <<>>
                           ELSE <<"send_unified_metrics">>),
         raised    |-> t.raised \/ s.raised]

\* (variant: the switch is applied to best_provider, whatever was decided)
AfterDecision_SwitchesToBest(cycle, primary, last, rules, dry, enabled, answer, d, scores, fail_at) ==
    LET doc == cycle_data(cycle, primary, last, d, scores)
        t   == send_unified_metrics(enabled, answer, doc)
        s   == switch_to_provider(primary, last, rules, dry, d.best_provider,
                                  fail_at)
    IN  [telemetry |-> t,
         record    |-> doc,
         switch    |-> s,
         events    |-> <<"send_unified_metrics">>
                       \o [i \in 1..s.calls |-> "update_netbox_policy"],
         raised    |-> t.raised \/ s.raised]

AfterDecision(cycle, primary, last, rules, dry, enabled, answer, d, scores, fail_at) ==
    LET doc == cycle_data(cycle, primary, last, d, scores)
        t   == send_unified_metrics(enabled, answer, doc)
        s   == IF t.raised
               THEN [primary |-> primary, last_provider |-> last,
                     rules |-> rules, raised |-> FALSE, calls |-> 0,
                     reads |-> 0, writes |-> 0]
               ELSE switch_to_provider(primary, last, rules, dry,
                                       d.new_provider, fail_at)
    IN  [telemetry |-> t,
         record    |-> doc,
         switch    |-> s,
         events    |-> <<"send_unified_metrics">>
                       \o [i \in 1..s.calls |-> "update_netbox_policy"],
         raised    |-> t.raised \/ s.raised]

\* Lines 530 and 582-583: whatever Exception the body raised is caught and
\* logged, and run_cycle returns to the loop of main.
\* (variant: the exception leaves run_cycle)
run_cycle_returns_UnlessRaised(raised) == ~raised

run_cycle_returns(raised) == TRUE

InitialRules(catalog) ==
    [r \in UNION {{POLICY_RULE_IDS[catalog[i]].export,
                   POLICY_RULE_IDS[catalog[i]].pref} : i \in 1..Len(catalog)} |->
        IF r \in {POLICY_RULE_IDS["IXA"].export, POLICY_RULE_IDS["IXA"].pref}
        THEN Rule(0, 200) ELSE Rule(3, 100)]

NoCycle ==
    [primary |-> None, pre_counter |-> 0, pre_candidate |-> None,
     outcomes |-> [p \in Providers |-> None],
     scores |-> [p \in Providers |-> [sum |-> 0, n |-> 0, is_healthy |-> TRUE]],
     switch_raised |-> FALSE, above_run |-> 0, evaluating_streak |-> 0,
     after_raise |-> FALSE, answer |-> None, fail_at |-> 0,
     diff_is_nan |-> FALSE,
     telemetry |-> [posted |-> FALSE, delivered |-> FALSE, doc |-> NoDoc,
                    raised |-> FALSE],
     record |-> NoDoc, events |-> <<>>, calls |-> 0, reads |-> 0, writes |-> 0,
     new_provider |-> None, reason |-> None,
     degradation_counter |-> 0, better_provider_candidate |-> None,
     best_provider |-> None, diff_above_margin |-> FALSE,
     primary_healthy |-> TRUE,
     tracked_counter |-> 0, tracked_candidate |-> None]

NoProbe == [provider |-> None]

-----------------------------------------------------------------------------
(* The ping-based engine, bgp_failover_engine.py *)

\* The two providers the file names everywhere (lines 44, 51-54, 88-89).
PingProviders == {"IXA", "UFINET"}

\* Latencies are exact fractions of a millisecond, n / d; float('inf') of
\* line 73 is the numerator Inf.
Rat(n, d) == [n |-> n, d |-> d]

RECURSIVE GCD(_, _)
GCD(a, b) == IF b = 0 THEN a ELSE GCD(b, a % b)

RatIsInf(x) == x.n = Inf

RatAdd(x, y) ==
    IF RatIsInf(x) \/ RatIsInf(y) THEN Rat(Inf, 1)
    ELSE LET n == x.n * y.d + y.n * x.d
             d == x.d * y.d
             g == GCD(n, d)
         IN  Rat(n \div g, d \div g)

RatDiv(x, k) ==
    IF RatIsInf(x) THEN x
    ELSE LET g == GCD(x.n, x.d * k)
         IN  Rat(x.n \div g, (x.d * k) \div g)

RatLess(x, y) ==
    IF RatIsInf(x) THEN FALSE
    ELSE IF RatIsInf(y) THEN TRUE
    ELSE x.n * y.d < y.n * x.d

\* What one call of measure_latency can return (lines 46-73): the average of
\* the ping run, or inf when the run failed, timed out or printed no average.
PingLatencies == {Rat(5, 1), Rat(25, 1), Rat(61, 2), Rat(Inf, 1)}

\* Line 26.
PING_WARNING == Rat(20, 1)

\* Line 14.
PING_DRY_RUN == FALSE

\* How many cycles of the ping-based engine are followed: enough for a
\* history to pass five entries.
MaxPingCycles == 7

RECURSIVE RatSum(_)
RatSum(h) == IF h = <<>> THEN Rat(0, 1) ELSE RatAdd(Head(h), RatSum(Tail(h)))

\* Lines 75-84.  An empty history is the only case that measures; otherwise
\* the oldest entry is dropped when there are more than five and the mean of
\* what is left is returned.  measured lists the results of the
\* measure_latency calls this call made, window the entries the mean is over.
get_average_latency(history, measurement) ==
    IF history = <<>>
    THEN [value |-> measurement, history |-> history,
          measured |-> <<measurement>>, window |-> <<>>]
    ELSE LET kept == IF Len(history) > 5 THEN Tail(history) ELSE history
         IN  [value |-> RatDiv(RatSum(kept), Len(kept)), history |-> kept,
              measured |-> <<>>, window |-> kept]

\* Lines 98-105.
PingDecision(primary, ixa_latency, ufinet_latency) ==
    IF primary = "IXA"
    THEN IF RatLess(ufinet_latency, ixa_latency) /\ RatLess(PING_WARNING, ixa_latency)
         THEN "UFINET" ELSE primary
    ELSE IF primary = "UFINET"
    THEN IF RatLess(ixa_latency, ufinet_latency) /\ RatLess(PING_WARNING, ufinet_latency)
         THEN "IXA" ELSE primary
    ELSE primary

\* Lines 16-21.
PING_RULE_IDS ==
    [k \in {"EXPORT-TO-IXA", "EXPORT-TO-UFINET",
            "SET-LOCAL-PREF-IXA", "SET-LOCAL-PREF-UFINET"} |->
        CASE k = "EXPORT-TO-IXA"         -> 1
          [] k = "EXPORT-TO-UFINET"      -> 2
          [] k = "SET-LOCAL-PREF-IXA"    -> 3
          [] OTHER                       -> 4]

\* Lines 157-169: the four updates of a switch, in the order they are made.
PingUpdateCalls(new_provider) ==
    LET on(p) == (p = new_provider)
    IN  << [rule_id |-> PING_RULE_IDS["EXPORT-TO-IXA"],
            key |-> "as_path_prepend_count",
            value |-> IF on("IXA") THEN 0 ELSE 2],
           [rule_id |-> PING_RULE_IDS["EXPORT-TO-UFINET"],
            key |-> "as_path_prepend_count",
            value |-> IF on("UFINET") THEN 0 ELSE 2],
           [rule_id |-> PING_RULE_IDS["SET-LOCAL-PREF-IXA"],
            key |-> "local_preference",
            value |-> IF on("IXA") THEN "200" ELSE "100"],
           [rule_id |-> PING_RULE_IDS["SET-LOCAL-PREF-UFINET"],
            key |-> "local_preference",
            value |-> IF on("UFINET") THEN "200" ELSE "100"] >>

\* Lines 107-145: the rule is read, its custom fields are copied, the named
\* one is replaced and the whole rule is written back.
PingPatchRule(rules, call) ==
    LET current_data == rules[call.rule_id]
    IN  [rules EXCEPT ![call.rule_id] =
            [routing_policy |-> current_data.routing_policy,
             index          |-> current_data.index,
             action         |-> current_data.action,
             custom_fields  |->
                 [current_data.custom_fields EXCEPT ![call.key] = call.value]]]

RECURSIVE PingApplyCalls(_, _, _)
PingApplyCalls(rules, calls, k) ==
    IF k = 0 \/ calls = <<>> THEN rules
    ELSE PingApplyCalls(PingPatchRule(rules, Head(calls)), Tail(calls), k - 1)

\* Lines 147-172.  fail_at = 0: every store call answers; fail_at = k: the
\* k-th update raises, the updates before it are written, line 171 is not
\* reached.
ping_switch_to_provider(primary, rules, new_provider, fail_at) ==
    LET calls  == PingUpdateCalls(new_provider)
        raised == ~PING_DRY_RUN /\ fail_at # 0
        done   == IF PING_DRY_RUN THEN 0
                  ELSE IF fail_at = 0 THEN Len(calls) ELSE fail_at - 1
    IN  IF new_provider = primary
        THEN [primary |-> primary, rules |-> rules, raised |-> FALSE]
        ELSE [primary |-> IF raised THEN primary ELSE new_provider,
              rules   |-> PingApplyCalls(rules, calls, done),
              raised  |-> raised]

\* The store the ping-based engine starts against: IXA is the default
\* primary (line 31).
PingInitialRules ==
    [r \in 1..4 |->
        [routing_policy |-> 1, index |-> 10, action |-> "permit",
         custom_fields |->
            IF r \in {PING_RULE_IDS["EXPORT-TO-IXA"], PING_RULE_IDS["SET-LOCAL-PREF-IXA"]}
            THEN [as_path_prepend_count |-> 0, local_preference |-> "200"]
            ELSE [as_path_prepend_count |-> 2, local_preference |-> "100"]]]

\* Lines 31, 34-44; cycles counts the calls of run_cycle, and measured and
\* window are what the last one measured and averaged over, per provider.
PingInit ==
    [latency_history          |-> [p \in PingProviders |-> <<>>],
     current_primary_provider |-> "IXA",
     rules                    |-> PingInitialRules,
     cycles                   |-> 0,
     measured                 |-> [p \in PingProviders |-> <<>>],
     window                   |-> [p \in PingProviders |-> <<>>],
     new_provider             |-> "IXA",
     raised                   |-> FALSE]


InitWith(catalog, health_answers) ==
    /\ PROVIDERS = catalog
    /\ current_primary_provider = "IXA"
    /\ metrics_history = [p \in Providers |-> <<>>]
    /\ degradation_counter = 0
    /\ better_provider_candidate = None
    /\ cycle_count = 0
    /\ last_provider = "IXA"
    /\ DRY_RUN \in BOOLEAN
    /\ netbox_rules = InitialRules(catalog)
    /\ \E health \in health_answers :
          es_enabled = ElasticsearchClient_init(ELASTICSEARCH_ENABLED, health)
    /\ running = TRUE
    /\ recorded = [p \in Providers |-> <<>>]
    /\ probe = NoProbe
    /\ ping_engine = PingInit
    /\ last_cycle = NoCycle

Init == InitWith(FallbackCatalog, {"ok"})

\* History of the decisions, kept for the properties.  above_run: the number
\* of consecutive cycles, ending with this one, in which the same provider
\* was best_provider against the same primary with score_diff above the
\* margin.
AboveRun(d, primary) ==
    IF d.best_provider # primary /\ d.diff_above_margin
    THEN IF /\ last_cycle.above_run > 0
            /\ last_cycle.primary = primary
            /\ last_cycle.best_provider = d.best_provider
         THEN last_cycle.above_run + 1
         ELSE 1
    ELSE 0

\* evaluating_streak: the number of consecutive cycles, counted from a cycle
\* that began with degradation_counter = 0 and no candidate and ending with
\* this one, in which the primary was healthy and the same other provider
\* was best with score_diff above the margin.
EvaluatingStreak(d, primary) ==
    IF d.best_provider # primary /\ d.diff_above_margin /\ d.primary_healthy
    THEN IF degradation_counter = 0 /\ better_provider_candidate = None
         THEN 1
         ELSE IF /\ last_cycle.evaluating_streak > 0
                 /\ last_cycle.primary = primary
                 /\ last_cycle.best_provider = d.best_provider
         THEN last_cycle.evaluating_streak + 1
         ELSE 0
    ELSE 0

\* The policy-store failures one cycle can meet: none, or the k-th call of
\* the switch.  Only a cycle that applies a switch outside dry run calls the
\* store.
FailChoices(will_change) ==
    IF will_change /\ ~DRY_RUN THEN 0..(2 * Len(PROVIDERS)) ELSE {0}

\* What the sink can answer in one cycle; a disabled client asks nothing.
AnswerChoices(answers) == IF es_enabled THEN answers ELSE {None}

RunCycle(measurable, answers) ==
    /\ running
    /\ cycle_count < MaxCycles
    /\ \E outcomes \in [Providers -> measurable] :
       \E answer \in AnswerChoices(answers) :
       \E history \in {RecordAll(metrics_history, outcomes)} :
       \E scores \in {ProviderScores(history)} :
       \E d \in {SwitchDecision(scores, current_primary_provider,
                                degradation_counter,
                                better_provider_candidate)} :
       \E fail_at \in FailChoices(d.new_provider # current_primary_provider) :
       \E r \in {AfterDecision(cycle_count + 1, current_primary_provider,
                               last_provider, netbox_rules, DRY_RUN,
                               es_enabled, answer, d, scores, fail_at)} :
       \E s \in {r.switch} :
          /\ cycle_count' = cycle_count + 1
          /\ metrics_history' = history
          /\ degradation_counter' = d.degradation_counter
          /\ better_provider_candidate' = d.better_provider_candidate
          /\ current_primary_provider' = s.primary
          /\ last_provider' = s.last_provider
          /\ netbox_rules' = s.rules
          /\ running' = run_cycle_returns(r.raised)
          /\ recorded' = [p \in Providers |->
                             Append(recorded[p], RecordedMetrics(outcomes[p]))]
          /\ last_cycle' =
               [primary       |-> current_primary_provider,
                outcomes      |-> outcomes,
                scores        |-> [p \in Providers |->
                                     [sum |-> scores[p].sum, n |-> scores[p].n,
                                      is_healthy |-> scores[p].is_healthy]],
                pre_counter   |-> degradation_counter,
                pre_candidate |-> better_provider_candidate,
                switch_raised |-> s.raised,
                after_raise   |-> last_cycle.switch_raised,
                answer        |-> answer,
                fail_at       |-> fail_at,
                diff_is_nan   |->
                    DiffIsNaN(scores[current_primary_provider],
                              scores[d.best_provider]),
                telemetry     |-> r.telemetry,
                record        |-> r.record,
                events        |-> r.events,
                calls         |-> s.calls,
                reads         |-> s.reads,
                writes        |-> s.writes,
                above_run     |-> AboveRun(d, current_primary_provider),
                evaluating_streak |->
                    EvaluatingStreak(d, current_primary_provider)] @@ d
    /\ UNCHANGED <<PROVIDERS, DRY_RUN, es_enabled, probe, ping_engine>>

\* The fallback catalog, every measurement outcome.
Next == RunCycle(MeasureOutcomes, {"ok"})

Spec == Init /\ [][Next]_vars

\* A catalog of three providers, whose measurements succeed (Good) or fail.
Init3 == InitWith(ThreeProviderCatalog, {"ok"})

Next3 == RunCycle({None, "Good"}, {"ok"})

Spec3 == Init3 /\ [][Next3]_vars

\* The fallback catalog, measurements at the edges of the data model.
NextEdge == RunCycle(EdgeOutcomes, {"ok"})

SpecEdge == Init /\ [][NextEdge]_vars

\* The fallback catalog; the sink may refuse the health request of the
\* constructor and any later request.
InitTelemetry == InitWith(FallbackCatalog, SinkAnswers)

NextTelemetry == RunCycle({None, "Good"}, SinkAnswers)

SpecTelemetry == InitTelemetry /\ [][NextTelemetry]_vars

\* One measurement taken apart: a report comes back from MTR for a provider,
\* extract_metrics reads it, and the caller appends the snapshot or the
\* penalty.
ExtractReport ==
    /\ probe = NoProbe
    /\ \E provider \in Providers :
       \E mtr_report \in MtrReports :
       \E returned \in {extract_metrics(mtr_report, provider)} :
          probe' = [provider |-> provider, mtr_report |-> mtr_report,
                    returned |-> returned, appended |-> AppendedFor(returned)]
    /\ UNCHANGED <<PROVIDERS, current_primary_provider, metrics_history,
                   degradation_counter, better_provider_candidate, cycle_count,
                   last_provider, DRY_RUN, netbox_rules, es_enabled, running,
                   recorded, ping_engine, last_cycle>>

SpecExtract == Init /\ [][ExtractReport]_vars

\* run_cycle of the ping-based engine (lines 174-184) with should_switch_provider
\* (86-105): both averages are taken, both are appended to the histories, the
\* decision is made and, when it names another provider, the switch is tried;
\* an exception of the store ends the cycle with the primary unchanged.
PingRunCycle ==
    /\ ping_engine.cycles < MaxPingCycles
    /\ \E measurement \in [PingProviders -> PingLatencies] :
       \E ixa \in {get_average_latency(ping_engine.latency_history["IXA"], measurement["IXA"])} :
       \E ufinet \in {get_average_latency(ping_engine.latency_history["UFINET"], measurement["UFINET"])} :
       \E new_provider \in {PingDecision(ping_engine.current_primary_provider, ixa.value, ufinet.value)} :
       \E fail_at \in (IF new_provider # ping_engine.current_primary_provider THEN 0..4 ELSE {0}) :
       \E s \in {ping_switch_to_provider(ping_engine.current_primary_provider, ping_engine.rules, new_provider, fail_at)} :
          ping_engine' =
              [latency_history |->
                   [p \in PingProviders |->
                       IF p = "IXA" THEN Append(ixa.history, ixa.value)
                       ELSE Append(ufinet.history, ufinet.value)],
               current_primary_provider |-> s.primary,
               rules        |-> s.rules,
               cycles       |-> ping_engine.cycles + 1,
               measured     |-> [p \in PingProviders |->
                                    IF p = "IXA" THEN ixa.measured ELSE ufinet.measured],
               window       |-> [p \in PingProviders |->
                                    IF p = "IXA" THEN ixa.window ELSE ufinet.window],
               new_provider |-> new_provider,
               raised       |-> s.raised]
    /\ UNCHANGED <<PROVIDERS, current_primary_provider, metrics_history,
                   degradation_counter, better_provider_candidate, cycle_count,
                   last_provider, DRY_RUN, netbox_rules, es_enabled, running,
                   recorded, probe, last_cycle>>

\* The loop of main of the ping-based engine (lines 196-198).
SpecPing == Init /\ [][PingRunCycle]_vars

\* One iteration of the loop of main (lines 619-622), seen from outside: the
\* loop is alive and a call of run_cycle has raised cycle_count.
LoopIteration ==
    /\ running
    /\ cycle_count < MaxCycles
    /\ cycle_count' = cycle_count + 1

\* while True: run_cycle(); sleep -- as long as the loop is alive, the next
\* iteration comes.
SpecLoop ==
    InitTelemetry /\ [][NextTelemetry]_vars /\ WF_cycle_count(LoopIteration)

-----------------------------------------------------------------------------
(* Properties of the decision.  Each is a predicate on the state a cycle    *)
(* leaves: last_cycle holds the primary the cycle started with, what        *)
(* should_switch_provider computed and what it returned.                    *)

Ran == cycle_count > 0

Stay == last_cycle.new_provider = last_cycle.primary

\* The smoothed scores the last cycle compared.
CycleScores == ProviderScores(metrics_history)

\* smoothedScore(primary) - smoothedScore(best) <= switch_margin
DiffWithinMargin ==
    LET a == CycleScores[last_cycle.primary]
        b == CycleScores[last_cycle.best_provider]
    IN  a.sum * b.n - b.sum * a.n <= 30 * a.n * b.n

\* The newest snapshot of provider p.
Newest(p) == metrics_history[p][Len(metrics_history[p])]

LossCritical(m) == m.peer_loss >= 20 \/ m.dns_loss >= 20

\* C1: in every cycle with score_diff <= switch_margin the decision is stay,
\* whatever the degradation counter and the health of the primary.
C1_StayWithinMargin ==
    (Ran /\ DiffWithinMargin) => Stay

\* C1 witness: a cycle within the margin whose primary was unhealthy, whose
\* best provider was another one and whose counter had reached the threshold.
C1_Witness ==
    /\ Ran /\ DiffWithinMargin /\ Stay
    /\ last_cycle.best_provider # last_cycle.primary
    /\ LossCritical(Newest(last_cycle.primary))
    /\ last_cycle.tracked_counter >= SUSTAINED_DEGRADATION_CYCLES

\* C2: a cycle with another provider best, score_diff above the margin and
\* an unhealthy primary decides the switch to best in that cycle, for every
\* counter value, and leaves counter 0 and no candidate.
C2_ImmediateSwitch ==
    ( /\ Ran
      /\ last_cycle.best_provider # last_cycle.primary
      /\ ~DiffWithinMargin
      /\ LossCritical(Newest(last_cycle.primary)) )
    => /\ last_cycle.new_provider = last_cycle.best_provider
       /\ last_cycle.reason = "critical_loss"
       /\ degradation_counter = 0
       /\ better_provider_candidate = None

\* C2 witness: the immediate switch in the very first cycle, the counter
\* having just become 1.
C2_Witness ==
    /\ cycle_count = 1
    /\ last_cycle.best_provider # last_cycle.primary
    /\ ~DiffWithinMargin
    /\ LossCritical(Newest(last_cycle.primary))
    /\ last_cycle.tracked_counter = 1
    /\ last_cycle.new_provider = last_cycle.best_provider

\* C3: from counter 0 and no candidate, with a healthy primary and the same
\* other provider best above the margin in every cycle, cycles 1 and 2 stay
\* with reason evaluating k/3 and cycle 3 switches to that provider.
C3_SwitchExactlyAtThreshold ==
    /\ last_cycle.evaluating_streak \in 0..SUSTAINED_DEGRADATION_CYCLES
    /\ last_cycle.evaluating_streak \in 1..(SUSTAINED_DEGRADATION_CYCLES - 1)
         => /\ Stay
            /\ last_cycle.reason = "evaluating"
            /\ degradation_counter = last_cycle.evaluating_streak
            /\ better_provider_candidate = last_cycle.best_provider
    /\ last_cycle.evaluating_streak = SUSTAINED_DEGRADATION_CYCLES
         => /\ last_cycle.new_provider = last_cycle.best_provider
            /\ last_cycle.new_provider # last_cycle.primary
            /\ last_cycle.reason = "sustained"

\* C3 witness: the third such cycle in a row, ending in the switch.
C3_Witness ==
    /\ cycle_count = 3
    /\ last_cycle.evaluating_streak = 3
    /\ last_cycle.reason = "sustained"

\* C4: a healthy primary is switched only when the same candidate was ahead
\* by more than the margin in each of the last SUSTAINED_DEGRADATION_CYCLES
\* cycles, the switching cycle being the last of them.
C4_SwitchNeedsSustainedMargin ==
    ( /\ Ran
      /\ ~Stay
      /\ ~LossCritical(Newest(last_cycle.primary)) )
    => last_cycle.above_run >= SUSTAINED_DEGRADATION_CYCLES

\* C5: a cycle in which the newest snapshot of the primary has critical loss
\* while the newest snapshot of another provider is healthy switches away
\* from the primary.
C5_SwitchOnCriticalLoss ==
    ( /\ Ran
      /\ LossCritical(Newest(last_cycle.primary))
      /\ \E p \in Providers \ {last_cycle.primary} : ~LossCritical(Newest(p)) )
    => ~Stay

\* C6: with another provider best, the tracking update leaves the counter at
\* exactly 1 and the candidate at best when best is not the stored candidate
\* (which may be none), and at the previous counter plus 1 when it is; a
\* cycle that stays keeps these values.
C6_TrackingUpdate ==
    (Ran /\ last_cycle.best_provider # last_cycle.primary)
    => /\ last_cycle.tracked_candidate = last_cycle.best_provider
       /\ last_cycle.tracked_counter =
            IF last_cycle.pre_candidate = last_cycle.best_provider
            THEN last_cycle.pre_counter + 1
            ELSE 1
       /\ Stay => /\ degradation_counter = last_cycle.tracked_counter
                  /\ better_provider_candidate = last_cycle.best_provider

\* C6 witness: the best provider replaces another recorded candidate whose
\* count had passed 1.
C6_Witness ==
    /\ Ran
    /\ last_cycle.best_provider # last_cycle.primary
    /\ last_cycle.pre_candidate \notin {None, last_cycle.best_provider}
    /\ last_cycle.pre_counter >= 2
    /\ degradation_counter = 1
    /\ better_provider_candidate = last_cycle.best_provider

\* C7: a cycle whose best provider is the primary stays, with reason stable,
\* and leaves counter 0 and no candidate.
C7_StableWhenBest ==
    (Ran /\ last_cycle.best_provider = last_cycle.primary)
    => /\ Stay
       /\ last_cycle.reason = "stable"
       /\ degradation_counter = 0
       /\ better_provider_candidate = None

\* C7 witness: such a cycle that began with a candidate recorded.
C7_Witness ==
    /\ Ran
    /\ last_cycle.best_provider = last_cycle.primary
    /\ last_cycle.pre_counter >= 1
    /\ last_cycle.pre_candidate # None
    /\ degradation_counter = 0

\* C8: a cycle in which no other provider has a strictly lower smoothed score
\* than the primary (ties included) ends Stable: stay, counter 0, no
\* candidate.
C8_StableWhenNoneLower ==
    ( /\ Ran
      /\ \A p \in Providers :
            LET a == CycleScores[p]
                b == CycleScores[last_cycle.primary]
            IN  a.sum * b.n >= b.sum * a.n )
    => /\ Stay
       /\ degradation_counter = 0
       /\ better_provider_candidate = None

\* C9: a cycle that stays with a candidate recorded leaves the counter below
\* SUSTAINED_DEGRADATION_CYCLES.
C9_EvaluatingBelowThreshold ==
    (Ran /\ Stay /\ better_provider_candidate # None)
    => degradation_counter < SUSTAINED_DEGRADATION_CYCLES

\* C10: a cycle leaves the counter at 0 and the candidate at none only if it
\* changed the primary or found the primary to be the best provider.
C10_ResetOnlyOnSwitchOrBest ==
    (Ran /\ (degradation_counter = 0 \/ better_provider_candidate = None))
    => \/ current_primary_provider # last_cycle.primary
       \/ last_cycle.best_provider = last_cycle.primary

-----------------------------------------------------------------------------
(* Selection of best_provider (lines 375-409) *)

\* The place of a provider in the configured catalog.
CatalogIndex(p) == CHOOSE i \in 1..Len(PROVIDERS) : PROVIDERS[i] = p

\* The mean of a is below the mean of b (finite scores).
MeanBelow(a, b) == a.sum * b.n < b.sum * a.n

SameMean(a, b) == a.sum * b.n = b.sum * a.n

\* C11: best_provider is a provider with the minimum smoothed score of the
\* cycle and, when several providers share that minimum, the one that comes
\* first in the configured catalog; the cycle's scores and the catalog order
\* determine it, whatever the primary is.
C11_BestIsFirstMinimum ==
    Ran =>
        LET best == CycleScores[last_cycle.best_provider]
        IN  \A p \in Providers :
               /\ ~MeanBelow(CycleScores[p], best)
               /\ SameMean(CycleScores[p], best)
                     => CatalogIndex(last_cycle.best_provider) <= CatalogIndex(p)

\* The primary, which comes later in the catalog, shares the minimum with an
\* earlier provider, and the earlier provider is best.
C11_Witness ==
    /\ Ran
    /\ last_cycle.best_provider # last_cycle.primary
    /\ SameMean(CycleScores[last_cycle.primary],
                CycleScores[last_cycle.best_provider])
    /\ CatalogIndex(last_cycle.best_provider) = 2
    /\ CatalogIndex(last_cycle.primary) = 3

\* Every entry of the provider's history window is the penalty snapshot.
AllPenalty(p) ==
    \A i \in 1..Len(metrics_history[p]) : metrics_history[p][i] = PenaltyMetrics

\* C12: a provider whose measurement failed in every cycle of its history
\* window is never the provider a cycle decides to switch to, whatever the
\* other providers measured.
C12_NoSwitchToAllPenalty ==
    (Ran /\ ~Stay) => ~AllPenalty(last_cycle.new_provider)

-----------------------------------------------------------------------------
(* The history window and the smoothed score (lines 377-396) *)

\* The last n entries of a sequence.
LastN(h, n) == IF Len(h) <= n THEN h ELSE SubSeq(h, Len(h) - n + 1, Len(h))

MinOf(a, b) == IF a <= b THEN a ELSE b

\* The snapshot a cycle owes a provider: what was measured, or the penalty.
OwedSnapshot(outcome) ==
    IF outcome = None THEN LatencyMetrics(999, 100, 999, 100, 0, 0)
    ELSE Measured(outcome)

\* C13: every cycle appends exactly one snapshot to every provider's history,
\* the measured one or the penalty (999 ms, 100% loss on both legs, no
\* jitter) when the measurement failed, and the decision of the cycle is
\* taken over histories that end with that snapshot; a failed measurement
\* does not skip the decision.
C13_OneSnapshotPerCycle ==
    [][\A p \in Providers :
          /\ metrics_history'[p] =
                LastN(Append(metrics_history[p],
                             OwedSnapshot(last_cycle'.outcomes[p])), 3)
          /\ last_cycle'.scores[p].n = Len(metrics_history'[p])
          /\ last_cycle'.best_provider \in Providers
          /\ last_cycle'.new_provider \in Providers]_vars

\* A cycle in which one measurement failed and another succeeded has decided.
C13_Witness ==
    /\ Ran
    /\ \E p, q \in Providers :
          /\ last_cycle.outcomes[p] = None
          /\ Newest(p) = PenaltyMetrics
          /\ last_cycle.outcomes[q] # None
          /\ Newest(q) = Measured(last_cycle.outcomes[q])
    /\ last_cycle.best_provider \in Providers
    /\ last_cycle.reason # None

\* C14: after every cycle every provider's history holds min(cycles run, 3)
\* snapshots.
C14_HistoryLength ==
    \A p \in Providers : Len(metrics_history[p]) = MinOf(cycle_count, 3)

\* Four cycles have run, with failed and successful measurements of the same
\* provider, and its history holds three snapshots.
C14_Witness ==
    /\ cycle_count = 4
    /\ \E p \in Providers :
          /\ Len(metrics_history[p]) = 3
          /\ \E i, j \in 1..4 : /\ recorded[p][i] = PenaltyMetrics
                                 /\ recorded[p][j] # PenaltyMetrics

\* The sum of quality_score over the last min(k, 3) of the k samples.
SumOfLast3(samples) ==
    LET k == Len(samples)
    IN  quality_score(samples[k])
        + (IF k >= 2 THEN quality_score(samples[k - 1]) ELSE 0)
        + (IF k >= 3 THEN quality_score(samples[k - 2]) ELSE 0)

\* C15: the smoothed score the decision compares is, for every provider, the
\* arithmetic mean of quality_score over the last min(k, 3) of the k samples
\* recorded for it so far; with one sample it is that sample's score, and a
\* sample older than the last three does not enter.
C15_SmoothedIsMeanOfLast3 ==
    Ran =>
        \A p \in Providers :
            /\ last_cycle.scores[p].n = MinOf(Len(recorded[p]), 3)
            /\ last_cycle.scores[p].sum = SumOfLast3(recorded[p])

\* A fourth sample has arrived; the first one, which scored differently from
\* all three in the window, has left the mean.
C15_Witness ==
    \E p \in Providers :
        /\ Len(recorded[p]) = 4
        /\ \A i \in 2..4 : quality_score(recorded[p][i])
                               # quality_score(recorded[p][1])
        /\ recorded[p][2] # recorded[p][4]
        /\ last_cycle.scores[p].n = 3
        /\ last_cycle.scores[p].sum = SumOfLast3(recorded[p])

-----------------------------------------------------------------------------
(* The health flag (lines 108-118, 391-396) *)

\* Both legs of the snapshot lost fewer than 20% of the probes.
LossBelow20(m) == m.peer_loss < 20 /\ m.dns_loss < 20

\* C16: the health flag the decision uses for a provider is that of the
\* provider's newest snapshot alone, and it is true exactly when peer loss
\* and destination loss are both below 20; a loss of 20 or more makes it
\* false whatever the latency, and no latency makes it false.
C16_HealthIsLossOfNewest ==
    Ran =>
        /\ \A p \in Providers :
              last_cycle.scores[p].is_healthy = LossBelow20(Newest(p))
        /\ last_cycle.primary_healthy = LossBelow20(Newest(last_cycle.primary))

\* The primary's newest snapshot has infinite peer latency and no loss, an
\* older one in its window has 100% loss, and the primary counts as healthy;
\* another provider, with low latency and a peer loss of exactly 20, does not.
C16_Witness ==
    /\ Ran
    /\ Newest(last_cycle.primary).peer_avg = Inf
    /\ \E i \in 1..Len(metrics_history[last_cycle.primary]) :
          metrics_history[last_cycle.primary][i].peer_loss = 100
    /\ last_cycle.primary_healthy
    /\ \E q \in Providers :
          /\ Newest(q).peer_loss = 20
          /\ Newest(q).peer_avg < LATENCY_THRESHOLDS.peer_warning
          /\ ~last_cycle.scores[q].is_healthy

-----------------------------------------------------------------------------
(* Telemetry and the application of the switch (lines 528-583) *)

\* The places of a call in the cycle's sequence of calls.
EventsOf(name) ==
    {i \in 1..Len(last_cycle.events) : last_cycle.events[i] = name}

\* C17: in every cycle the telemetry record goes to the telemetry client
\* before any policy-store update of the cycle; its current_provider and the
\* is_primary flags name the primary the cycle started with, also when the
\* cycle switches, in which case provider_changed is true and new_provider is
\* the provider switched to.  A record that is posted is that record.
C17_TelemetryBeforeSwitch ==
    Ran =>
        /\ Cardinality(EventsOf("send_unified_metrics")) = 1
        /\ \A i \in EventsOf("send_unified_metrics") :
           \A j \in EventsOf("update_netbox_policy") : i < j
        /\ last_cycle.record.current_provider = last_cycle.primary
        /\ \A p \in Providers :
              last_cycle.record.is_primary[p] = (p = last_cycle.primary)
        /\ last_cycle.record.provider_changed = ~Stay
        /\ ~Stay => last_cycle.record.new_provider = last_cycle.new_provider
        /\ last_cycle.telemetry.posted
              => last_cycle.telemetry.doc = last_cycle.record

\* A cycle outside dry run switched: the record was posted first, naming the
\* old primary, and the four store updates followed.
C17_Witness ==
    /\ Ran /\ ~Stay /\ ~DRY_RUN
    /\ current_primary_provider = last_cycle.new_provider
    /\ last_cycle.telemetry.posted
    /\ last_cycle.telemetry.doc.current_provider = last_cycle.primary
    /\ last_cycle.telemetry.doc.current_provider # current_primary_provider
    /\ last_cycle.events = <<"send_unified_metrics", "update_netbox_policy",
                             "update_netbox_policy", "update_netbox_policy",
                             "update_netbox_policy">>

\* C18: every cycle posts exactly one telemetry record to the sink, and the
\* record of the k-th cycle carries cycle number k, in switching and
\* non-switching cycles and after earlier posts have failed.
C18_OneRecordPerCycle ==
    Ran =>
        /\ last_cycle.telemetry.posted
        /\ last_cycle.telemetry.doc.cycle = cycle_count

\* C19: when a policy-store call fails while a switch is applied, the error
\* leaves update_netbox_policy, current_primary_provider keeps the value it
\* had when the cycle started, run_cycle returns to the loop, and the loop
\* can run the next cycle.
C19_StoreFailureAbortsSwitch ==
    (Ran /\ last_cycle.fail_at # 0) =>
        /\ last_cycle.switch_raised
        /\ current_primary_provider = last_cycle.primary
        /\ running
        /\ cycle_count < MaxCycles => ENABLED RunCycle({None, "Good"}, {"ok"})

\* The cycle after a failed switch decided the switch again and applied it.
C19_Witness ==
    /\ Ran
    /\ last_cycle.after_raise
    /\ ~Stay
    /\ last_cycle.fail_at = 0
    /\ last_cycle.calls = 2 * Len(PROVIDERS)
    /\ current_primary_provider = last_cycle.new_provider

\* C20: a cycle whose telemetry was refused, failed or could not be sent ends
\* in the state the decision and the switch alone lead to: the same returned
\* provider, counter, candidate, primary and policy store.
C20_TelemetryFailureHarmless ==
    [][last_cycle'.answer # "ok" =>
         \E d \in {SwitchDecision(ProviderScores(metrics_history'),
                                  current_primary_provider,
                                  degradation_counter,
                                  better_provider_candidate)} :
         \E s \in {switch_to_provider(current_primary_provider, last_provider,
                                      netbox_rules, DRY_RUN, d.new_provider,
                                      last_cycle'.fail_at)} :
            /\ last_cycle'.new_provider = d.new_provider
            /\ degradation_counter' = d.degradation_counter
            /\ better_provider_candidate' = d.better_provider_candidate
            /\ current_primary_provider' = s.primary
            /\ netbox_rules' = s.rules
            /\ last_cycle'.calls = s.calls]_vars

\* The sink was unreachable in a cycle that decided a switch outside dry run,
\* and the switch was applied in full.
C20_Witness ==
    /\ Ran /\ ~Stay /\ ~DRY_RUN
    /\ last_cycle.answer = "unreachable"
    /\ last_cycle.telemetry.posted /\ ~last_cycle.telemetry.delivered
    /\ last_cycle.calls = 2 * Len(PROVIDERS)
    /\ current_primary_provider = last_cycle.new_provider

-----------------------------------------------------------------------------
(* The control loop (lines 528-583, 619-622) *)

\* C21: no error of a cycle stops the loop: the loop stays alive, every step
\* is one whole cycle that raises cycle_count by exactly 1, and after cycle k
\* cycle k + 1 runs, whatever failed in cycle k (probe or extraction, policy
\* store, telemetry).
C21_LoopNeverStops ==
    /\ []running
    /\ [][cycle_count' = cycle_count + 1]_vars
    /\ \A k \in 0..(MaxCycles - 1) : (cycle_count = k) ~> (cycle_count = k + 1)

\* A cycle in which a measurement failed, the sink was unreachable and a
\* policy-store call failed has returned, and the loop goes on.
C21_Witness ==
    /\ Ran /\ cycle_count < MaxCycles
    /\ \E p \in Providers : last_cycle.outcomes[p] = None
    /\ last_cycle.answer = "unreachable"
    /\ last_cycle.switch_raised
    /\ running
    /\ ENABLED NextTelemetry

-----------------------------------------------------------------------------
(* The policy store (lines 462-526) *)

\* C22: in dry run no update_netbox_policy call sends a read or a write to
\* the policy store, and after any number of cycles, switching ones included,
\* the rules of the store are those of startup.
C22_DryRunLeavesStore ==
    DRY_RUN =>
        /\ last_cycle.reads = 0
        /\ last_cycle.writes = 0
        /\ netbox_rules = InitialRules(PROVIDERS)

\* A dry-run cycle has decided a switch and gone through every update call;
\* the primary has changed and the store has not.
C22_Witness ==
    /\ DRY_RUN /\ Ran /\ ~Stay
    /\ current_primary_provider = last_cycle.new_provider
    /\ last_cycle.calls = 2 * Len(PROVIDERS)
    /\ netbox_rules = InitialRules(PROVIDERS)

\* The rules whose as_path_prepend_count, and those whose local_preference,
\* a switch names in its updates.
ExportRules == {POLICY_RULE_IDS[p].export : p \in Providers}

PrefRules == {POLICY_RULE_IDS[p].pref : p \in Providers}

\* C23: the successful updates of a cycle change, in each rule they are made
\* on, the one custom field they name and nothing else: the rule's other
\* custom field, its routing policy, index and action keep their values, and
\* no rule appears or disappears.
C23_UpdateTouchesNamedFieldOnly ==
    [][/\ DOMAIN netbox_rules' = DOMAIN netbox_rules
       /\ \A r \in DOMAIN netbox_rules :
             /\ netbox_rules'[r].routing_policy = netbox_rules[r].routing_policy
             /\ netbox_rules'[r].index = netbox_rules[r].index
             /\ netbox_rules'[r].action = netbox_rules[r].action
             /\ DOMAIN netbox_rules'[r].custom_fields
                   = DOMAIN netbox_rules[r].custom_fields
             /\ r \in ExportRules =>
                   netbox_rules'[r].custom_fields.local_preference
                     = netbox_rules[r].custom_fields.local_preference
             /\ r \in PrefRules =>
                   netbox_rules'[r].custom_fields.as_path_prepend_count
                     = netbox_rules[r].custom_fields.as_path_prepend_count]_vars

\* Every update of a switch succeeded: the export rule of the old primary has
\* its new prepend count and the local preference it had, the preference
\* rule of the new primary its new preference and the prepend count it had.
C23_Witness ==
    /\ Ran /\ ~Stay /\ ~DRY_RUN
    /\ last_cycle.writes = 2 * Len(PROVIDERS)
    /\ last_cycle.primary = "IXA" /\ last_cycle.new_provider = "UFINET"
    /\ netbox_rules[POLICY_RULE_IDS["IXA"].export].custom_fields
          = [as_path_prepend_count |-> 3, local_preference |-> 200]
    /\ netbox_rules[POLICY_RULE_IDS["UFINET"].pref].custom_fields
          = [as_path_prepend_count |-> 3, local_preference |-> 200]

-----------------------------------------------------------------------------
(* extract_metrics (lines 315-354) *)

\* The report read last is well formed: it has a list of hops.
HasHubs == "hubs" \in DOMAIN probe.mtr_report

\* The hops of the report that show the provider's peer address, and those
\* whose count is the number of hops.
PeerHops ==
    {i \in 1..Len(probe.mtr_report.hubs) :
        probe.mtr_report.hubs[i].host = PEER_IPS[probe.provider]}

CountedLastHops ==
    {i \in 1..Len(probe.mtr_report.hubs) :
        probe.mtr_report.hubs[i].count = Len(probe.mtr_report.hubs)}

\* The member of a hop as a number, or the default of a missing member.
Member(hub, name, default) ==
    IF name \in DOMAIN hub.fields THEN hub.fields[name] ELSE default

\* C24: extract_metrics returns a snapshot exactly when the report has a hop
\* with the provider's peer address and a hop whose count is the number of
\* hops (and the values of those two hops are numbers); the snapshot carries
\* the latency, loss and jitter of those two hops.  In every other case --
\* no peer hop, no hops, no such count, a malformed report -- it returns
\* failure, nothing is raised, and the caller appends the penalty snapshot.
C24_ExtractIffBothHops ==
    probe # NoProbe =>
        /\ ~probe.returned.raised
        /\ probe.returned.ok <=>
              /\ HasHubs
              /\ \E i \in PeerHops : \E j \in CountedLastHops :
                    /\ \A k \in PeerHops : k <= i
                    /\ \A k \in CountedLastHops : k <= j
                    /\ probe.mtr_report.hubs[i].bad = {}
                    /\ probe.mtr_report.hubs[j].bad = {}
        /\ probe.returned.ok =>
              /\ probe.appended = probe.returned.metrics
              /\ \E i \in PeerHops : \E j \in CountedLastHops :
                    LET peer == probe.mtr_report.hubs[i]
                        dest == probe.mtr_report.hubs[j]
                    IN  /\ probe.appended.peer_avg = Member(peer, "Avg", Inf)
                        /\ probe.appended.peer_loss = Member(peer, "Loss", 100)
                        /\ probe.appended.peer_stddev = Member(peer, "StDev", 0)
                        /\ probe.appended.dns_avg = Member(dest, "Avg", Inf)
                        /\ probe.appended.dns_loss = Member(dest, "Loss", 100)
                        /\ probe.appended.dns_stddev = Member(dest, "StDev", 0)
        /\ ~probe.returned.ok =>
              probe.appended = LatencyMetrics(999, 100, 999, 100, 0, 0)

\* A report of two hops, the peer first and the counted last hop second,
\* gave a snapshot with the values of each.
C24_Witness ==
    /\ probe # NoProbe
    /\ HasHubs
    /\ PeerHops = {1}
    /\ CountedLastHops = {2}
    /\ probe.returned.ok
    /\ probe.appended = LatencyMetrics(5, 0, 10, 0, 1, 2)

-----------------------------------------------------------------------------
(* Infinite latency (lines 334-341, 141-148, 407-411) *)

\* The provider's history window holds a snapshot with infinite latency.
HasInfLatency(p) ==
    \E i \in 1..Len(metrics_history[p]) :
        metrics_history[p][i].peer_avg = Inf \/ metrics_history[p][i].dns_avg = Inf

\* C25: with snapshots of infinite latency in play, score_diff is never NaN,
\* and a provider whose score is infinite is never preferred to a provider
\* whose latencies are all finite, also when two providers have infinite
\* latency in the same cycle.
C25_InfNeverNaN ==
    Ran =>
        /\ ~last_cycle.diff_is_nan
        /\ \A p, q \in Providers :
              (HasInfLatency(p) /\ ~HasInfLatency(q))
                  => last_cycle.best_provider # p

-----------------------------------------------------------------------------
(* What changes the primary and the tracking (lines 414-460, 496-583) *)

\* C26: current_primary_provider changes only in a cycle that decided a
\* switch, and then to the best_provider of that cycle; a cycle that decided
\* to stay leaves it alone; and degradation_counter and
\* better_provider_candidate are after the cycle what the decision made of
\* them -- measuring, recording, scoring and telemetry write none of the
\* three.
C26_PrimaryChangesOnlyOnSwitch ==
    [][/\ current_primary_provider' # current_primary_provider =>
             /\ last_cycle'.new_provider # current_primary_provider
             /\ current_primary_provider' = last_cycle'.best_provider
       /\ last_cycle'.new_provider = current_primary_provider =>
             current_primary_provider' = current_primary_provider
       /\ cycle_count' # cycle_count =>
             \E d \in {SwitchDecision(ProviderScores(metrics_history'),
                                      current_primary_provider,
                                      degradation_counter,
                                      better_provider_candidate)} :
                /\ degradation_counter' = d.degradation_counter
                /\ better_provider_candidate' = d.better_provider_candidate
                /\ last_cycle'.new_provider = d.new_provider]_vars

\* The primary has changed for the second time, back to IXA, which was best
\* in a cycle whose telemetry was not accepted.
C26_Witness ==
    /\ cycle_count >= 2
    /\ last_cycle.primary = "UFINET"
    /\ last_cycle.best_provider = "IXA"
    /\ ~Stay
    /\ current_primary_provider = "IXA"
    /\ last_cycle.answer # "ok"

\* C27: after a cycle that decided a switch, the engine is stable under the
\* new primary: current_primary_provider is the provider switched to,
\* degradation_counter is 0 and there is no candidate.
C27_StableAfterSwitch ==
    (Ran /\ ~Stay) =>
        /\ current_primary_provider = last_cycle.new_provider
        /\ degradation_counter = 0
        /\ better_provider_candidate = None

\* C28: after every cycle degradation_counter is not negative, it is 0
\* exactly when there is no candidate, and a candidate is a provider of the
\* catalog other than the primary.
C28_CounterAndCandidate ==
    Ran =>
        /\ degradation_counter >= 0
        /\ (degradation_counter = 0) <=> (better_provider_candidate = None)
        /\ better_provider_candidate # None =>
              /\ better_provider_candidate \in Providers
              /\ better_provider_candidate # current_primary_provider

\* Two cycles into the tracking of a candidate.
C28_Witness ==
    /\ Ran
    /\ degradation_counter = 2
    /\ better_provider_candidate \in Providers \ {current_primary_provider}
    /\ Stay

-----------------------------------------------------------------------------
(* The target of an immediate switch (lines 407-441) *)

\* C29: a switch decided at once for critical packet loss of the primary
\* goes to a provider whose own newest snapshot is healthy, both losses below
\* 20: the engine does not move from an unhealthy provider to one that is
\* unhealthy in the same cycle.
C29_ImmediateTargetHealthy ==
    (Ran /\ last_cycle.reason = "critical_loss") =>
        /\ LossBelow20(Newest(last_cycle.new_provider))
        /\ last_cycle.scores[last_cycle.new_provider].is_healthy

-----------------------------------------------------------------------------
(* previous_provider in the telemetry record (lines 538-549, 498-504) *)

\* C30: in the record of a switching cycle, the first switch and every later
\* one, previous_provider is the provider switched away from -- the record's
\* current_provider -- and differs from new_provider; in the record of a
\* cycle that stays, previous_provider and new_provider are both none.
C30_PreviousProviderInRecord ==
    Ran =>
        IF Stay
        THEN /\ last_cycle.record.previous_provider = None
             /\ last_cycle.record.new_provider = None
        ELSE /\ last_cycle.record.previous_provider
                   = last_cycle.record.current_provider
             /\ last_cycle.record.previous_provider
                   # last_cycle.record.new_provider

-----------------------------------------------------------------------------
(* Policy store against the primary (lines 462-494, 496-526) *)

\* C31: outside dry run, from a store that starts consistent with the default
\* primary, after every completed cycle -- also one in which a store call
\* failed part-way through a switch -- the primary's export rule has
\* as_path_prepend_count 0 and its local-preference rule has 200, and every
\* other provider has prepend 3 and local preference 100.
C31_StoreMatchesPrimary ==
    (Ran /\ ~DRY_RUN) =>
        \A p \in Providers :
            LET prepend == netbox_rules[POLICY_RULE_IDS[p].export]
                               .custom_fields.as_path_prepend_count
                pref    == netbox_rules[POLICY_RULE_IDS[p].pref]
                               .custom_fields.local_preference
            IN  IF p = current_primary_provider
                THEN prepend = 0 /\ pref = 200
                ELSE prepend = 3 /\ pref = 100

-----------------------------------------------------------------------------
(* The ping-based engine measures in every cycle (bgp_failover_engine.py) *)

\* C32: after any run_cycle of the ping-based engine, the newest entry of
\* latency_history[provider] is the result of a measure_latency call made in
\* that cycle, for each provider, and the moving average is taken over at
\* most the last 5 entries.
C32_DecisionUsesFreshLatency ==
    ping_engine.cycles > 0 =>
        \A p \in PingProviders :
            LET history == ping_engine.latency_history[p]
            IN  /\ ping_engine.measured[p] # <<>>
                /\ history[Len(history)]
                       = ping_engine.measured[p][Len(ping_engine.measured[p])]
                /\ Len(ping_engine.window[p]) <= 5

====
